---- MODULE Spec2Model ----
(***************************************************************************)
(* Model of server/server.js of hyperclean-voice-agent-3: the upgrade gate *)
(* (server.on('upgrade')), the per-call connection handler                 *)
(* (wss.on('connection')) with its two WebSocket legs (twilioWS, the       *)
(* downstream telephony leg, and upstream, the OpenAI realtime leg), the   *)
(* message handlers of both legs and closeBoth.                            *)
(*                                                                         *)
(* Node runs every callback to completion, so one action is one callback.  *)
(* The continuation of the connection handler after `await` runs as a      *)
(* microtask of the upstream 'open' (or 'error') event, before any other   *)
(* event is dispatched, and is part of that event's action.                *)
(*                                                                         *)
(* A payload is modelled by the byte sequence its base64 text stands for.  *)
(***************************************************************************)
EXTENDS Integers, Sequences, FiniteSets, TLC

\* ------------------------------------------------------------ bounds
\* messages delivered on the downstream leg of one session
MaxDown == 2
\* messages delivered on the upstream leg of one session
MaxUp == 1
\* messages delivered on all legs of two concurrent sessions together
TwoBudget == 3

\* ------------------------------------------------------------ values
\* Session slots, in order of arrival of their upgrade requests.
Sessions == {1, 2}

\* JavaScript null and undefined
Null == "null"
Undefined == "undefined"

\* process.env.STREAM_SHARED_SECRET (non-empty: line 18 exits otherwise)
SHARED == "s3cret"
\* url.searchParams.get('token'): the secret, a one-character difference,
\* the empty string, and null for a request without the parameter
Tokens == {SHARED, "s3creT", "", Null}

KnownPaths == {"/stream", "/stream-sales", "/stream-service"}
Paths == KnownPaths \cup {"/health", "/stream-sale"}

\* readyState of a ws WebSocket: CONNECTING 0, OPEN 1, CLOSING 2, CLOSED 3;
\* NoSocket for a slot that has no socket
NoSocket == "none"
CONNECTING == "CONNECTING"
OPEN == "OPEN"
CLOSING == "CLOSING"
CLOSED == "CLOSED"

\* PERSONAS: voice of each endpoint
PERSONAS == [p \in KnownPaths |->
               IF p = "/stream-service" THEN [voice |-> "verse"]
                                        ELSE [voice |-> "alloy"]]

\* systemPrompt(path): the instruction text, named by its persona
systemPrompt(p) ==
  CASE p = "/stream-sales" -> "sales"
    [] p = "/stream-service" -> "service"
    [] OTHER -> "general"

\* line 118 reading `const persona = PERSONAS['/stream']`: one voice for all
personaDefaultOnly(p) == PERSONAS["/stream"]

\* persona = PERSONAS[path] || PERSONAS['/stream']
personaOf(p) == IF p \in DOMAIN PERSONAS THEN PERSONAS[p] ELSE PERSONAS["/stream"]

\* ------------------------------------------------------------ state
VARIABLES
  outcome,      \* per slot: "none", "401", "404" or "accepted" (the gate's answer)
  path,         \* per session: url.pathname of the accepted request
  phase,        \* per session: position of the connection handler:
                \*   "none"   no handler running
                \*   "await"  suspended at the await of the upstream open
                \*   "ready"  ran to its end: every handler is registered
                \*   "failed" returned from the catch block
  twilioWS,     \* per session: readyState of the downstream socket
  upstream,     \* per session: readyState of the upstream socket
  rxOff,        \* per session and leg: the leg's receiver is shut after an 'error'
  streamSid,    \* per session: the handler's streamSid variable
  upSent,       \* per session: messages transmitted on the upstream leg
  downSent,     \* per session: messages transmitted on the downstream leg
  sendNotOpen,  \* per session: twilioWS.send() was called while not OPEN
  startsIn,     \* per session: identifiers of the start messages delivered downstream
  mediaOpen,    \* per session: payloads of the media messages delivered downstream
                \*   while the upstream leg was open, in order of arrival
  nDown,        \* per session: messages delivered on the downstream leg
  nUp,          \* per session: messages delivered on the upstream leg
  stopIn,       \* per session: a stop message was delivered downstream
  shutdown,     \* the server: "no" it listens, "closing" server.close() was
                \*   called, "exited" process.exit(0) ran
  crashed,      \* the process died of an unhandled 'error' event
  lastEv        \* the event the last step dispatched

vars == <<outcome, path, phase, twilioWS, upstream, rxOff, streamSid, upSent,
          downSent, sendNotOpen, startsIn, mediaOpen, nDown, nUp, stopIn,
          shutdown, crashed, lastEv>>

NoMsg == [json |-> FALSE]
NoEvent == [s |-> 0, ev |-> "init", msg |-> NoMsg]
Ev(s, e) == [s |-> s, ev |-> e, msg |-> NoMsg]
EvMsg(s, e, m) == [s |-> s, ev |-> e, msg |-> m]

Init ==
  /\ outcome = [s \in Sessions |-> "none"]
  /\ path = [s \in Sessions |-> Null]
  /\ phase = [s \in Sessions |-> "none"]
  /\ twilioWS = [s \in Sessions |-> NoSocket]
  /\ upstream = [s \in Sessions |-> NoSocket]
  /\ rxOff = [s \in Sessions |-> [down |-> FALSE, up |-> FALSE]]
  /\ streamSid = [s \in Sessions |-> Null]
  /\ upSent = [s \in Sessions |-> <<>>]
  /\ downSent = [s \in Sessions |-> <<>>]
  /\ sendNotOpen = [s \in Sessions |-> FALSE]
  /\ startsIn = [s \in Sessions |-> {}]
  /\ mediaOpen = [s \in Sessions |-> <<>>]
  /\ nDown = [s \in Sessions |-> 0]
  /\ nUp = [s \in Sessions |-> 0]
  /\ stopIn = [s \in Sessions |-> FALSE]
  /\ shutdown = "no"
  /\ crashed = FALSE
  /\ lastEv = NoEvent

\* ------------------------------------------------------------ messages
\* Payloads of downstream media messages: companded bytes. The empty one
\* stands for a media message whose payload is missing or empty.
MediaPayloads == {<<>>, <<255>>, <<0, 127>>}
\* Payloads of upstream audio deltas: linear bytes, of even and odd length.
\* The empty one stands for a delta event whose delta is missing or empty.
DeltaPayloads == {<<>>, <<0, 0>>, <<4, 1, 255>>}
\* Identifiers of start messages; Undefined for a start without streamSid
Identifiers == {"MZ100", "MZ200"}
StreamSids == Identifiers \cup {Undefined}

\* What arrives on the downstream leg: text that JSON.parse rejects, or an
\* object with an event tag.
Unparseable == [json |-> FALSE]
StartMsg(sid) == [json |-> TRUE, event |-> "start", streamSid |-> sid]
MediaMsg(p) == [json |-> TRUE, event |-> "media", payload |-> p]
StopMsg == [json |-> TRUE, event |-> "stop"]
ConnectedMsg == [json |-> TRUE, event |-> "connected"]
DownRaw ==
  {Unparseable, StopMsg, ConnectedMsg}
    \cup {StartMsg(sid) : sid \in StreamSids}
    \cup {MediaMsg(p) : p \in MediaPayloads}

\* What arrives on the upstream leg.
DeltaEvent(p) == [json |-> TRUE, type |-> "response.audio.delta", delta |-> p]
DoneEvent == [json |-> TRUE, type |-> "response.done"]
OtherEvent == [json |-> TRUE, type |-> "session.updated"]
UpRaw ==
  {Unparseable, DoneEvent, OtherEvent} \cup {DeltaEvent(p) : p \in DeltaPayloads}

\* What the handlers send.
SessionUpdate(p) ==
  [type |-> "session.update", voice |-> personaOf(p).voice,
   instructions |-> systemPrompt(p)]
AppendAudio(bytes) == [type |-> "input_audio_buffer.append", audio |-> bytes]
CommitAudio == [type |-> "input_audio_buffer.commit"]
\* The mark's name, response_<Date.now()>, is left out of the model.
MediaOut(sid, bytes) == [event |-> "media", streamSid |-> sid, payload |-> bytes]
MarkOut(sid) == [event |-> "mark", streamSid |-> sid]

\* ------------------------------------------------------------ the codec
\* alawmulaw's mu-law tables and sample functions (G.711).
decodeTable == <<0, 132, 396, 924, 1980, 4092, 8316, 16764>>

\* encodeTable[i] of alawmulaw: the position of the highest set bit of i
encodeTable(i) ==
  IF i >= 128 THEN 7 ELSE IF i >= 64 THEN 6 ELSE IF i >= 32 THEN 5
  ELSE IF i >= 16 THEN 4 ELSE IF i >= 8 THEN 3 ELSE IF i >= 4 THEN 2
  ELSE IF i >= 2 THEN 1 ELSE 0

Pow2(n) == IF n = 0 THEN 1 ELSE IF n = 1 THEN 2 ELSE IF n = 2 THEN 4
  ELSE IF n = 3 THEN 8 ELSE IF n = 4 THEN 16 ELSE IF n = 5 THEN 32
  ELSE IF n = 6 THEN 64 ELSE IF n = 7 THEN 128 ELSE IF n = 8 THEN 256
  ELSE IF n = 9 THEN 512 ELSE 1024

\* mulaw.decodeSample: one companded byte to one signed 16-bit sample
decodeSample(u) ==
  LET m == 255 - u
      sign == m \div 128
      exponent == (m \div 16) % 8
      mantissa == m % 16
      sample == decodeTable[exponent + 1] + mantissa * Pow2(exponent + 3)
  IN IF sign # 0 THEN -sample ELSE sample

\* mulaw.encodeSample: one signed 16-bit sample to one companded byte
encodeSample(x) ==
  LET sign == IF x < 0 THEN 128 ELSE 0
      mag == IF x < 0 THEN -x ELSE x
      biased == IF mag + 132 > 32635 THEN 32635 ELSE mag + 132
      exponent == encodeTable((biased \div 128) % 256)
      mantissa == (biased \div Pow2(exponent + 3)) % 16
  IN 255 - (sign + exponent * 16 + mantissa)

\* Buffer.from(pcmArray.buffer): a sample as two little-endian bytes
int16Bytes(x) ==
  LET v == IF x < 0 THEN x + 65536 ELSE x IN <<v % 256, v \div 256>>

\* new Int16Array(buffer, offset, length / 2): element i of the byte buffer
int16At(bytes, i) ==
  LET v == bytes[2 * i - 1] + 256 * bytes[2 * i]
  IN IF v >= 32768 THEN v - 65536 ELSE v

\* lines 214-217 with `Buffer.from(pcmArray)` in place of
\* `Buffer.from(pcmArray.buffer)`: one byte per sample, the sample's low byte
mulawDecodeLowBytes(bytes) ==
  [i \in 1..Len(bytes) |-> decodeSample(bytes[i]) % 256]

\* lines 214-217: companded bytes to linear bytes, two per sample:
\* pcmArray[i] = mulaw.decode(mulawBuffer[i]), then the array's bytes
mulawDecode(bytes) ==
  [k \in 1..(2 * Len(bytes)) |->
     int16Bytes(decodeSample(bytes[(k + 1) \div 2]))[2 - (k % 2)]]

\* lines 163-166: linear bytes to companded bytes. The Int16Array is given
\* the length `pcmBuffer.length / 2`, which the typed array constructor
\* truncates to an integer: a trailing odd byte is not part of the array.
mulawEncode(bytes) ==
  [i \in 1..(Len(bytes) \div 2) |-> encodeSample(int16At(bytes, i))]

\* a close() that is not idempotent: called on a socket that is already
\* closing, it drops the connection at once
closeTwiceDrops(rs) ==
  IF rs \in {OPEN, CONNECTING} THEN CLOSING ELSE CLOSED

\* ------------------------------------------------------------ closing
\* WebSocket.close() of ws on a socket in readyState rs: an open socket
\* starts its closing handshake, a connecting one aborts its handshake, and
\* a closing or closed one is left as it is (no error is raised).
close(rs) == IF rs \in {OPEN, CONNECTING} THEN CLOSING ELSE rs

\* closeBoth with the upstream close left out
closeBothTwilioOnly(tw, up) == [twilioWS |-> close(tw), upstream |-> up]

\* closeBoth, from the readyStates tw of twilioWS and up of upstream
closeBoth(tw, up) == [twilioWS |-> close(tw), upstream |-> close(up)]

\* ------------------------------------------------------------ the gate
\* The gate with the token compared only when one was given
gateMissingTokenOk(token, p) ==
  IF token # Null /\ token # SHARED THEN "401"
  ELSE IF p \notin KnownPaths THEN "404"
  ELSE "accepted"

\* The gate without the path check
gateAnyPath(token, p) == IF token # SHARED THEN "401" ELSE "accepted"

\* server.on('upgrade'): the token is checked first, then the path.
gate(token, p) ==
  IF token # SHARED THEN "401"
  ELSE IF p \notin KnownPaths THEN "404"
  ELSE "accepted"

\* An upgrade request arrives for slot s, which holds no session (a rejected
\* caller may try again on a fresh connection). An accepted one runs
\* wss.handleUpgrade and the connection handler up to its await: the
\* downstream socket is open and the upstream socket is connecting.
Upgrade(s, token, p) ==
  /\ ~crashed
  /\ shutdown = "no"
  /\ outcome[s] # "accepted"
  /\ outcome' = [outcome EXCEPT ![s] = gate(token, p)]
  /\ IF gate(token, p) = "accepted"
       THEN /\ path' = [path EXCEPT ![s] = p]
            /\ phase' = [phase EXCEPT ![s] = "await"]
            /\ twilioWS' = [twilioWS EXCEPT ![s] = OPEN]
            /\ upstream' = [upstream EXCEPT ![s] = CONNECTING]
       ELSE UNCHANGED <<path, phase, twilioWS, upstream>>
  /\ lastEv' = [s |-> s, ev |-> "upgrade", msg |-> [json |-> FALSE, token |-> token, path |-> p]]
  /\ UNCHANGED <<rxOff, streamSid, upSent, downSent, sendNotOpen, startsIn,
                 mediaOpen, nDown, nUp, stopIn, shutdown,
                 crashed>>

\* upstream opens and the handler goes on without the session.update of
\* lines 143-154
UpstreamOpenNoConfig(s) ==
  /\ ~crashed
  /\ phase[s] = "await"
  /\ upstream[s] = CONNECTING
  /\ upstream' = [upstream EXCEPT ![s] = OPEN]
  /\ phase' = [phase EXCEPT ![s] = "ready"]
  /\ lastEv' = Ev(s, "upstream.open")
  /\ UNCHANGED <<outcome, path, twilioWS, rxOff, streamSid, upSent, downSent,
                 sendNotOpen, startsIn, mediaOpen, nDown, nUp, stopIn, shutdown,
                 crashed>>

\* ------------------------------------------------------------ the upstream open
\* upstream emits 'open': the await resolves and the handler runs to its
\* end (lines 140-252): session.update is sent, and the message, error and
\* close handlers of both legs are registered.
UpstreamOpen(s) ==
  /\ ~crashed
  /\ phase[s] = "await"
  /\ upstream[s] = CONNECTING
  /\ upstream' = [upstream EXCEPT ![s] = OPEN]
  /\ upSent' = [upSent EXCEPT ![s] = Append(@, SessionUpdate(path[s]))]
  /\ phase' = [phase EXCEPT ![s] = "ready"]
  /\ lastEv' = Ev(s, "upstream.open")
  /\ UNCHANGED <<outcome, path, twilioWS, rxOff, streamSid, downSent, sendNotOpen,
                 startsIn, mediaOpen, nDown, nUp, stopIn, shutdown,
                 crashed>>

\* The connect failure with a catch block that only returns
UpstreamConnectErrorNoClose(s) ==
  /\ ~crashed
  /\ phase[s] = "await"
  /\ upstream[s] = CONNECTING
  /\ upstream' = [upstream EXCEPT ![s] = CLOSED]
  /\ phase' = [phase EXCEPT ![s] = "failed"]
  /\ lastEv' = Ev(s, "upstream.connect-error")
  /\ UNCHANGED <<outcome, path, twilioWS, rxOff, streamSid, upSent, downSent,
                 sendNotOpen, startsIn, mediaOpen, nDown, nUp, stopIn, shutdown,
                 crashed>>

\* upstream fails before it opens: ws marks it closed and emits 'error',
\* the await rejects, and the catch block (lines 196-200) closes twilioWS
\* and returns; no handler is registered on either socket.
UpstreamConnectError(s) ==
  /\ ~crashed
  /\ phase[s] = "await"
  /\ upstream[s] = CONNECTING
  /\ upstream' = [upstream EXCEPT ![s] = CLOSED]
  /\ twilioWS' = [twilioWS EXCEPT ![s] = close(@)]
  /\ phase' = [phase EXCEPT ![s] = "failed"]
  /\ lastEv' = Ev(s, "upstream.connect-error")
  /\ UNCHANGED <<outcome, path, rxOff, streamSid, upSent, downSent, sendNotOpen,
                 startsIn, mediaOpen, nDown, nUp, stopIn, shutdown,
                 crashed>>

\* ------------------------------------------------------------ downstream messages
\* twilioWS.on('message') (lines 203-237). The handler works on h, the
\* closure's state: streamSid, the readyStates twilioWS and upstream, and
\* upSent, what upstream was sent; each operator gives the new h.

\* case 'start': the identifier is stored, whatever was stored before
onStart(msg, h) == [h EXCEPT !.streamSid = msg.streamSid]

\* case 'media' appending whatever the upstream readyState is
onMediaNoOpenCheck(msg, h) ==
  IF msg.payload # <<>>
    THEN [h EXCEPT !.upSent = Append(@, AppendAudio(mulawDecode(msg.payload)))]
    ELSE h

\* case 'media': a payload is decoded and appended if upstream is open
onMedia(msg, h) ==
  IF msg.payload # <<>> /\ h.upstream = OPEN
    THEN [h EXCEPT !.upSent = Append(@, AppendAudio(mulawDecode(msg.payload)))]
    ELSE h

\* case 'stop' with the closeBoth call left out
onStopNoClose(msg, h) ==
  [h EXCEPT !.upSent = IF h.upstream = OPEN THEN Append(@, CommitAudio) ELSE @]

\* case 'stop': a commit is sent if upstream is open, then closeBoth
onStop(msg, h) ==
  LET c == closeBoth(h.twilioWS, h.upstream)
  IN [h EXCEPT !.upSent = IF h.upstream = OPEN THEN Append(@, CommitAudio) ELSE @,
               !.twilioWS = c.twilioWS,
               !.upstream = c.upstream]

\* a catch block that tears the session down
onParseErrorCloses(h) ==
  LET c == closeBoth(h.twilioWS, h.upstream)
  IN [h EXCEPT !.twilioWS = c.twilioWS, !.upstream = c.upstream]

\* catch (lines 234-236): the error is logged
onParseError(h) == h

onTwilioMessage(raw, h) ==
  IF ~raw.json THEN onParseError(h)
  ELSE CASE raw.event = "start" -> onStart(raw, h)
         [] raw.event = "media" -> onMedia(raw, h)
         [] raw.event = "stop" -> onStop(raw, h)
         [] OTHER -> h

\* A message arrives on the downstream leg (ws delivers what it receives
\* until the socket is closed or its receiver has failed). Before the
\* handler is registered, in "await" and "failed", nobody listens and the
\* message is lost.
TwilioMessage(s, raw) ==
  /\ ~crashed
  /\ twilioWS[s] \in {OPEN, CLOSING}
  /\ ~rxOff[s].down
  /\ nDown[s] < MaxDown
  /\ nDown' = [nDown EXCEPT ![s] = @ + 1]
  /\ startsIn' = [startsIn EXCEPT ![s] =
                    IF raw.json /\ raw.event = "start" THEN @ \cup {raw.streamSid} ELSE @]
  /\ stopIn' = [stopIn EXCEPT ![s] = @ \/ (raw.json /\ raw.event = "stop")]
  /\ mediaOpen' = [mediaOpen EXCEPT ![s] =
                    IF raw.json /\ raw.event = "media" /\ upstream[s] = OPEN
                      THEN Append(@, raw.payload) ELSE @]
  /\ IF phase[s] = "ready"
       THEN LET r == onTwilioMessage(raw, [streamSid |-> streamSid[s],
                                               twilioWS |-> twilioWS[s],
                                               upstream |-> upstream[s],
                                               upSent |-> upSent[s]])
            IN /\ streamSid' = [streamSid EXCEPT ![s] = r.streamSid]
               /\ twilioWS' = [twilioWS EXCEPT ![s] = r.twilioWS]
               /\ upstream' = [upstream EXCEPT ![s] = r.upstream]
               /\ upSent' = [upSent EXCEPT ![s] = r.upSent]
       ELSE UNCHANGED <<streamSid, twilioWS, upstream, upSent>>
  /\ lastEv' = EvMsg(s, "twilio.message", raw)
  /\ UNCHANGED <<outcome, path, phase, rxOff, downSent, sendNotOpen, nUp, shutdown,
                 crashed>>

\* ------------------------------------------------------------ upstream messages
\* upstream.on('message') (lines 157-186) on data, for streamSid sid, the
\* readyState tw of twilioWS, what was sent downstream and the sendNotOpen
\* flag: the new values of the last two. twilioWS.send() on a socket that is
\* not open transmits nothing (and what it raises is caught at line 183).
onUpstreamMessage(data, sid, tw, sent, notOpen) ==
  LET same == [downSent |-> sent, sendNotOpen |-> notOpen]
  IN IF ~data.json THEN same
     ELSE CASE data.type = "response.audio.delta" ->
                 IF data.delta # <<>> /\ tw = OPEN
                   THEN [same EXCEPT !.downSent =
                           Append(sent, MediaOut(sid, mulawEncode(data.delta)))]
                   ELSE same
            [] data.type = "response.done" ->
                 IF tw = OPEN
                   THEN [same EXCEPT !.downSent = Append(sent, MarkOut(sid))]
                   ELSE [same EXCEPT !.sendNotOpen = TRUE]
            [] OTHER -> same

\* A message arrives on the upstream leg. The handler is registered as soon
\* as the leg is open.
UpstreamMessage(s, data) ==
  /\ ~crashed
  /\ phase[s] = "ready"
  /\ upstream[s] \in {OPEN, CLOSING}
  /\ ~rxOff[s].up
  /\ nUp[s] < MaxUp
  /\ nUp' = [nUp EXCEPT ![s] = @ + 1]
  /\ LET r == onUpstreamMessage(data, streamSid[s], twilioWS[s], downSent[s], sendNotOpen[s])
     IN /\ downSent' = [downSent EXCEPT ![s] = r.downSent]
        /\ sendNotOpen' = [sendNotOpen EXCEPT ![s] = r.sendNotOpen]
  /\ lastEv' = EvMsg(s, "upstream.message", data)
  /\ UNCHANGED <<outcome, path, phase, twilioWS, upstream, rxOff, streamSid, upSent,
                 startsIn, mediaOpen, nDown, stopIn, shutdown,
                 crashed>>

\* ------------------------------------------------------------ close and error events
\* twilioWS emits 'close' (the peer hung up, or a close() completed): the
\* socket is closed, and the handler of lines 245-248 runs if registered.
TwilioClose(s) ==
  /\ ~crashed
  /\ twilioWS[s] \in {OPEN, CLOSING}
  /\ LET c == IF phase[s] = "ready" THEN closeBoth(CLOSED, upstream[s])
              ELSE [twilioWS |-> CLOSED, upstream |-> upstream[s]]
     IN /\ twilioWS' = [twilioWS EXCEPT ![s] = c.twilioWS]
        /\ upstream' = [upstream EXCEPT ![s] = c.upstream]
  /\ lastEv' = Ev(s, "twilio.close")
  /\ UNCHANGED <<outcome, path, phase, rxOff, streamSid, upSent, downSent, sendNotOpen,
                 startsIn, mediaOpen, nDown, nUp, stopIn, shutdown,
                 crashed>>

\* upstream emits 'close' after it opened: the handler of lines 192-195 runs.
UpstreamClose(s) ==
  /\ ~crashed
  /\ phase[s] = "ready"
  /\ upstream[s] \in {OPEN, CLOSING}
  /\ LET c == closeBoth(twilioWS[s], CLOSED)
     IN /\ twilioWS' = [twilioWS EXCEPT ![s] = c.twilioWS]
        /\ upstream' = [upstream EXCEPT ![s] = c.upstream]
  /\ lastEv' = Ev(s, "upstream.close")
  /\ UNCHANGED <<outcome, path, phase, rxOff, streamSid, upSent, downSent, sendNotOpen,
                 startsIn, mediaOpen, nDown, nUp, stopIn, shutdown,
                 crashed>>

\* twilioWS emits 'error' (the peer broke the protocol): ws stops the
\* receiver and starts closing the socket before it emits the event. With
\* the handler of lines 249-252 registered, closeBoth runs. Before that, in
\* "await" and "failed", the event has no listener: Node throws it as an
\* uncaught exception and the process exits, which ends every socket.
TwilioError(s) ==
  /\ ~crashed
  /\ twilioWS[s] \in {OPEN, CLOSING}
  /\ ~rxOff[s].down
  /\ IF phase[s] = "ready"
       THEN LET c == closeBoth(close(twilioWS[s]), upstream[s])
            IN /\ twilioWS' = [twilioWS EXCEPT ![s] = c.twilioWS]
               /\ upstream' = [upstream EXCEPT ![s] = c.upstream]
               /\ rxOff' = [rxOff EXCEPT ![s].down = TRUE]
               /\ UNCHANGED crashed
       ELSE /\ crashed' = TRUE
            /\ twilioWS' = [t \in Sessions |->
                              IF twilioWS[t] = NoSocket THEN NoSocket ELSE CLOSED]
            /\ upstream' = [t \in Sessions |->
                              IF upstream[t] = NoSocket THEN NoSocket ELSE CLOSED]
            /\ UNCHANGED rxOff
  /\ lastEv' = Ev(s, "twilio.error")
  /\ UNCHANGED <<outcome, path, phase, streamSid, upSent, downSent, sendNotOpen,
                 startsIn, mediaOpen, nDown, nUp, stopIn, shutdown>>

\* upstream emits 'error' after it opened: the handler of lines 188-191 runs.
UpstreamError(s) ==
  /\ ~crashed
  /\ phase[s] = "ready"
  /\ upstream[s] \in {OPEN, CLOSING}
  /\ ~rxOff[s].up
  /\ LET c == closeBoth(twilioWS[s], close(upstream[s]))
     IN /\ twilioWS' = [twilioWS EXCEPT ![s] = c.twilioWS]
        /\ upstream' = [upstream EXCEPT ![s] = c.upstream]
  /\ rxOff' = [rxOff EXCEPT ![s].up = TRUE]
  /\ lastEv' = Ev(s, "upstream.error")
  /\ UNCHANGED <<outcome, path, phase, streamSid, upSent, downSent, sendNotOpen,
                 startsIn, mediaOpen, nDown, nUp, stopIn, shutdown,
                 crashed>>

\* ------------------------------------------------------------ specifications
\* One step of session s.
Step(s) ==
  \/ \E token \in Tokens, p \in Paths : Upgrade(s, token, p)
  \/ UpstreamOpen(s)
  \/ UpstreamConnectError(s)
  \/ \E raw \in DownRaw : TwilioMessage(s, raw)
  \/ \E data \in UpRaw : UpstreamMessage(s, data)
  \/ TwilioClose(s)
  \/ UpstreamClose(s)
  \/ TwilioError(s)
  \/ UpstreamError(s)

\* One call: the steps of the first slot.
Next == Step(1)

Spec == Init /\ [][Next]_vars

\* ------------------------------------------------------------ shutdown
\* SIGTERM or SIGINT arrives: shutdown() (lines 264-270) calls
\* server.close(), which stops the server from accepting connections and
\* touches no connection that was upgraded. A second signal calls
\* server.close() on a server that no longer listens: nothing changes.
Signal ==
  /\ ~crashed
  /\ shutdown = "no"
  /\ shutdown' = "closing"
  /\ lastEv' = Ev(0, "signal")
  /\ UNCHANGED <<outcome, path, phase, twilioWS, upstream, rxOff, streamSid, upSent,
                 downSent, sendNotOpen, startsIn, mediaOpen, nDown, nUp, stopIn,
                 crashed>>

\* The callback of server.close() (lines 267-269) runs once the last
\* connection of the server has ended: process.exit(0), which ends the
\* upstream sockets with the process.
ServerClosed ==
  /\ ~crashed
  /\ shutdown = "closing"
  /\ \A s \in Sessions : twilioWS[s] \in {NoSocket, CLOSED}
  /\ shutdown' = "exited"
  /\ upstream' = [s \in Sessions |->
                    IF upstream[s] = NoSocket THEN NoSocket ELSE CLOSED]
  /\ lastEv' = Ev(0, "exit")
  /\ UNCHANGED <<outcome, path, phase, twilioWS, rxOff, streamSid, upSent,
                 downSent, sendNotOpen, startsIn, mediaOpen, nDown, nUp, stopIn,
                 crashed>>

\* One call on a server that may be signalled at any moment. After the exit
\* nothing runs: every socket is closed and no upgrade is accepted.
NextShutdown ==
  \/ Step(1)
  \/ Signal
  \/ ServerClosed

SpecShutdown == Init /\ [][NextShutdown]_vars

\* ------------------------------------------------------------ two concurrent calls
\* Two calls at once, each with the secret, on different routes and with
\* its own stream identifier; the callbacks of the two connections
\* interleave in any order.
TwoPath(s) == IF s = 1 THEN "/stream-sales" ELSE "/stream-service"
TwoSid(s) == IF s = 1 THEN "MZ100" ELSE "MZ200"
TwoDownRaw(s) == {StartMsg(TwoSid(s)), MediaMsg(<<255>>), StopMsg}
TwoUpRaw == {DeltaEvent(<<0, 0>>), DoneEvent}

\* messages delivered so far, on all legs of both calls
TwoDelivered == nDown[1] + nDown[2] + nUp[1] + nUp[2]

StepTwo(s) ==
  \/ Upgrade(s, SHARED, TwoPath(s))
  \/ UpstreamOpen(s)
  \/ UpstreamConnectError(s)
  \/ TwoDelivered < TwoBudget /\ \E raw \in TwoDownRaw(s) : TwilioMessage(s, raw)
  \/ TwoDelivered < TwoBudget /\ \E data \in TwoUpRaw : UpstreamMessage(s, data)
  \/ TwilioClose(s)
  \/ UpstreamClose(s)
  \/ TwilioError(s)
  \/ UpstreamError(s)

NextTwo == \E s \in Sessions : StepTwo(s)

SpecTwo == Init /\ [][NextTwo]_vars

\* A socket on which close() was called emits its 'close' event: the peer
\* answers the closing handshake, or the timer ws starts in close() ends
\* the connection.
CloseCompletes(s) ==
  \/ twilioWS[s] = CLOSING /\ TwilioClose(s)
  \/ upstream[s] = CLOSING /\ UpstreamClose(s)

\* The server with that guarantee. No other step is owed to the program:
\* every other step waits for the network, and the code sets no timer.
FairSpec == Spec /\ \A s \in Sessions : WF_vars(CloseCompletes(s))
\* ------------------------------------------------------------ claims
Triggers == {"twilio.close", "twilio.error", "upstream.close", "upstream.error"}
NotOpen(rs) == rs \in {CLOSING, CLOSED}

\* C1: in a session whose upstream leg has opened and whose handlers are
\* registered, a close or error event of either leg leaves both legs with
\* close() requested: neither leg is open after the event's handler.
C1_LockStepActive ==
  \A s \in Sessions :
    (lastEv.s = s /\ lastEv.ev \in Triggers /\ phase[s] = "ready")
      => NotOpen(twilioWS[s]) /\ NotOpen(upstream[s])

\* C1 witness: the downstream leg closed while both legs were open and no
\* message had arrived; the handler has asked upstream to close.
C1_Witness ==
  /\ lastEv = Ev(1, "twilio.close")
  /\ phase[1] = "ready"
  /\ nDown[1] = 0 /\ nUp[1] = 0
  /\ ~rxOff[1].up /\ ~rxOff[1].down
  /\ twilioWS[1] = CLOSED
  /\ upstream[1] = CLOSING

\* C2: in no reachable state is the downstream leg closed while the
\* upstream leg is open (a closed downstream leg has emitted its close
\* event, so nothing is pending that would close upstream).
C2_NoHalfOpen ==
  \A s \in Sessions : ~(twilioWS[s] = CLOSED /\ upstream[s] = OPEN)

\* C3: after an upgrade request, a token other than the secret (a missing
\* one included) gives 401 and no session whatever the path, and the secret
\* with a known path gives an accepted session.
C3_Credential ==
  \A s \in Sessions :
    (lastEv.s = s /\ lastEv.ev = "upgrade") =>
      /\ lastEv.msg.token # SHARED =>
           outcome[s] = "401" /\ phase[s] = "none" /\ twilioWS[s] = NoSocket
      /\ (lastEv.msg.token = SHARED /\ lastEv.msg.path \in KnownPaths) =>
           /\ outcome[s] = "accepted"
           /\ phase[s] = "await"
           /\ path[s] = lastEv.msg.path
           /\ twilioWS[s] = OPEN

\* C3 witness: a request without token for an unknown path was answered 401.
C3_Witness ==
  /\ lastEv.ev = "upgrade"
  /\ lastEv.msg.token = Null
  /\ lastEv.msg.path = "/health"
  /\ outcome[1] = "401"

\* C4: an upgrade request with the secret and an unknown path is answered
\* 404, and a slot whose request was not accepted holds no session: no
\* handler runs for it and it has no socket on either leg.
C4_UnknownPath ==
  \A s \in Sessions :
    /\ (lastEv.s = s /\ lastEv.ev = "upgrade" /\ lastEv.msg.token = SHARED
        /\ lastEv.msg.path \notin KnownPaths) => outcome[s] = "404"
    /\ outcome[s] # "accepted" =>
         /\ phase[s] = "none"
         /\ twilioWS[s] = NoSocket /\ upstream[s] = NoSocket
         /\ upSent[s] = <<>> /\ downSent[s] = <<>>

\* C4 witness: the secret with the path /stream-sale was answered 404.
C4_Witness ==
  /\ lastEv.ev = "upgrade"
  /\ lastEv.msg.token = SHARED
  /\ lastEv.msg.path = "/stream-sale"
  /\ outcome[1] = "404"
  /\ phase[1] = "none"
\* ------------------------------------------------------------ claims, continued
IsAppend(m) == m.type = "input_audio_buffer.append"
IsCommit(m) == m.type = "input_audio_buffer.commit"
Commits(s) == SelectSeq(upSent[s], IsCommit)
Appends(s) == SelectSeq(upSent[s], IsAppend)
HasPayload(p) == p # <<>>

\* The step delivers message m on the downstream leg of session s.
TwilioDelivers(s, m) == lastEv' = EvMsg(s, "twilio.message", m)
\* The step delivers message m on the upstream leg of session s.
UpstreamDelivers(s, m) == lastEv' = EvMsg(s, "upstream.message", m)

\* C5: a stop message delivered while upstream is open sends exactly one
\* commit upstream and leaves neither leg open; a stop delivered while
\* upstream is not open sends nothing upstream; and whatever the sequence of
\* messages, a session has sent at most one commit.
C5_StopCommit ==
  [][\A s \in Sessions :
       /\ TwilioDelivers(s, StopMsg) =>
            IF upstream[s] = OPEN
              THEN /\ upSent'[s] = Append(upSent[s], CommitAudio)
                   /\ NotOpen(twilioWS'[s]) /\ NotOpen(upstream'[s])
              ELSE upSent'[s] = upSent[s]
       /\ Len(SelectSeq(upSent'[s], IsCommit)) <= 1]_vars

\* C5 witness: a stop message was the first message of a session with both
\* legs open; one commit was sent and both legs are closing.
C5_Witness ==
  /\ lastEv = EvMsg(1, "twilio.message", StopMsg)
  /\ phase[1] = "ready"
  /\ nDown[1] = 1
  /\ upSent[1] = <<SessionUpdate(path[1]), CommitAudio>>
  /\ twilioWS[1] = CLOSING /\ upstream[1] = CLOSING
  /\ ~rxOff[1].up /\ ~rxOff[1].down

\* C6 as stated: the append messages sent upstream are, in order, the
\* decoded payloads of the media messages that arrived while upstream was
\* open, one for each.
C6_EveryMediaRelayed ==
  \A s \in Sessions :
    Appends(s) = [i \in 1..Len(mediaOpen[s]) |-> AppendAudio(mulawDecode(mediaOpen[s][i]))]

\* C6 amended: the append messages sent upstream are, in order and one for
\* each, the decoded payloads of the media messages with a non-empty payload
\* that arrived while upstream was open; a media message without payload,
\* or one that arrived while upstream was not open, is never sent.
C6_MediaRelay ==
  \A s \in Sessions :
    LET q == SelectSeq(mediaOpen[s], HasPayload)
    IN Appends(s) = [i \in 1..Len(q) |-> AppendAudio(mulawDecode(q[i]))]

\* C6 witness: two different media messages arrived while upstream was
\* open and were relayed in their order, each once.
C6_Witness ==
  /\ nDown[1] = 2
  /\ lastEv = EvMsg(1, "twilio.message", MediaMsg(<<255>>))
  /\ upstream[1] = OPEN
  /\ mediaOpen[1] = << <<0, 127>>, <<255>> >>
  /\ upSent[1] = <<SessionUpdate(path[1]),
                   AppendAudio(mulawDecode(<<0, 127>>)),
                   AppendAudio(mulawDecode(<<255>>))>>

\* The last step sent an event on the downstream leg of session s.
EmittedDown(s) ==
  /\ lastEv.s = s /\ lastEv.ev = "upstream.message" /\ lastEv.msg.json
  /\ twilioWS[s] = OPEN
  /\ \/ lastEv.msg.type = "response.done"
     \/ lastEv.msg.type = "response.audio.delta" /\ lastEv.msg.delta # <<>>

\* C7: an event sent on the downstream leg after a start message with an
\* identifier was delivered on that leg carries the identifier of a
\* delivered start message.
C7_EventsCarryStreamSid ==
  \A s \in Sessions :
    (EmittedDown(s) /\ startsIn[s] \cap Identifiers # {}) =>
      downSent[s][Len(downSent[s])].streamSid \in startsIn[s]

\* C8: a start message delivered to a session that has stored an
\* identifier leaves the stored identifier as it is.
C8_SecondStartIgnored ==
  [][\A s \in Sessions : \A sid \in Identifiers :
       (TwilioDelivers(s, StartMsg(sid)) /\ streamSid[s] \in Identifiers)
         => streamSid'[s] = streamSid[s]]_vars

\* C9: a session whose upstream leg failed before it opened has its
\* downstream leg closing or closed, has sent nothing on either leg (no
\* configuration message, nothing forwarded), holds the one upstream socket
\* it created, closed, and stays failed.
C9_ConnectFailure ==
  [][\A s \in Sessions :
       /\ phase'[s] = "failed" =>
            /\ NotOpen(twilioWS'[s])
            /\ upstream'[s] = CLOSED
            /\ upSent'[s] = <<>> /\ downSent'[s] = <<>>
            /\ streamSid'[s] = Null
       /\ phase[s] = "failed" => phase'[s] = "failed"]_vars

\* C9 witness: a message arrived on the downstream leg of a failed session
\* before that leg was closed, and nothing was forwarded.
C9_Witness ==
  /\ phase[1] = "failed"
  /\ lastEv = EvMsg(1, "twilio.message", MediaMsg(<<255>>))
  /\ twilioWS[1] = CLOSING
  /\ upSent[1] = <<>>

DroppedDown(m) == ~m.json \/ m.event \notin {"start", "media", "stop"}
DroppedUp(m) == ~m.json \/ m.type \notin {"response.audio.delta", "response.done"}

\* C10: a message that does not parse, or whose tag is not recognised,
\* changes nothing of its session on either leg: nothing is sent, no
\* readyState changes, the identifier stays, and the receivers stay on.
C10_Contained ==
  [][\A s \in Sessions :
       (\/ \E m \in DownRaw : DroppedDown(m) /\ TwilioDelivers(s, m)
        \/ \E m \in UpRaw : DroppedUp(m) /\ UpstreamDelivers(s, m))
       => /\ upSent'[s] = upSent[s] /\ downSent'[s] = downSent[s]
          /\ twilioWS'[s] = twilioWS[s] /\ upstream'[s] = upstream[s]
          /\ streamSid'[s] = streamSid[s]
          /\ rxOff'[s] = rxOff[s] /\ sendNotOpen'[s] = sendNotOpen[s]
          /\ phase'[s] = phase[s] /\ crashed' = crashed]_vars

\* C10 witness: an unparseable message was delivered on the downstream leg
\* of a session with both legs open, after a media message was relayed; both
\* legs are still open and nothing but the relayed message was sent.
C10_Witness ==
  /\ lastEv = EvMsg(1, "twilio.message", Unparseable)
  /\ phase[1] = "ready"
  /\ nDown[1] = 2 /\ nUp[1] = 0
  /\ upSent[1] = <<SessionUpdate(path[1]), AppendAudio(mulawDecode(<<255>>))>>
  /\ twilioWS[1] = OPEN /\ upstream[1] = OPEN

\* ------------------------------------------------------------ claims of the relay's audio
Odd(n) == n % 2 = 1

\* C11: an audio delta whose linear payload has an odd number of bytes is
\* dropped: the step that delivers it sends nothing on the downstream leg.
C11_OddDeltaDropped ==
  [][\A s \in Sessions : \A p \in DeltaPayloads :
       (Odd(Len(p)) /\ UpstreamDelivers(s, DeltaEvent(p)))
         => downSent'[s] = downSent[s]]_vars

\* a telephony frame of 160 companded bytes (20 ms at 8 kHz)
Frame160 == [i \in 1..160 |-> IF i % 2 = 0 THEN 255 ELSE 0]

\* the 160-byte frame decodes to 320 linear bytes, which encode to 160
Frame160Law ==
  /\ Len(mulawDecode(Frame160)) = 320
  /\ Len(mulawEncode(mulawDecode(Frame160))) = 160

\* C12: frame size law of the relay. A downstream media payload of n
\* companded bytes that is forwarded becomes one append message of exactly
\* 2n linear bytes (160 gives 320); an upstream delta of even length n that
\* is forwarded becomes one media event of exactly n/2 companded bytes.
C12_FrameSize ==
  [][/\ Frame160Law
     /\ \A s \in Sessions :
          /\ \A p \in MediaPayloads :
               (TwilioDelivers(s, MediaMsg(p)) /\ upSent'[s] # upSent[s])
                 => /\ Len(upSent'[s]) = Len(upSent[s]) + 1
                    /\ SubSeq(upSent'[s], 1, Len(upSent[s])) = upSent[s]
                    /\ IsAppend(upSent'[s][Len(upSent'[s])])
                    /\ Len(upSent'[s][Len(upSent'[s])].audio) = 2 * Len(p)
          /\ \A p \in DeltaPayloads :
               (~Odd(Len(p)) /\ UpstreamDelivers(s, DeltaEvent(p))
                  /\ downSent'[s] # downSent[s])
                 => /\ Len(downSent'[s]) = Len(downSent[s]) + 1
                    /\ SubSeq(downSent'[s], 1, Len(downSent[s])) = downSent[s]
                    /\ downSent'[s][Len(downSent'[s])].event = "media"
                    /\ 2 * Len(downSent'[s][Len(downSent'[s])].payload) = Len(p)]_vars

\* a 2-byte media payload went upstream as 4 linear bytes and a 2-byte delta
\* has just gone downstream as 1 companded byte
C12_Witness ==
  \E s \in Sessions :
    /\ lastEv = EvMsg(s, "upstream.message", DeltaEvent(<<0, 0>>))
    /\ downSent[s] # <<>>
    /\ downSent[s][Len(downSent[s])].event = "media"
    /\ Len(downSent[s][Len(downSent[s])].payload) = 1
    /\ \E i \in 1..Len(upSent[s]) :
         IsAppend(upSent[s][i]) /\ Len(upSent[s][i].audio) = 4

\* ------------------------------------------------------------ claims of the session's persona
\* the persona each route stands for: voice and instruction text
ExpectedPersona(p) ==
  CASE p = "/stream"         -> [voice |-> "alloy", instructions |-> "general"]
    [] p = "/stream-sales"   -> [voice |-> "alloy", instructions |-> "sales"]
    [] p = "/stream-service" -> [voice |-> "verse", instructions |-> "service"]

IsConfig(m) == m.type = "session.update"

\* C14: persona binding. A session whose upstream leg has opened has sent
\* exactly one configuration message, the first message of the leg, with the
\* voice and the instruction text of the route it was accepted on; a session
\* that has not sent none; the route of an accepted session never changes.
C14_PersonaBinding ==
  [][\A s \in Sessions :
       /\ outcome[s] = "accepted" => outcome'[s] = "accepted" /\ path'[s] = path[s]
       /\ phase'[s] = "ready" =>
            /\ path'[s] \in KnownPaths
            /\ upSent'[s] # <<>>
            /\ IsConfig(upSent'[s][1])
            /\ upSent'[s][1].voice = ExpectedPersona(path'[s]).voice
            /\ upSent'[s][1].instructions = ExpectedPersona(path'[s]).instructions
            /\ \A i \in 2..Len(upSent'[s]) : ~IsConfig(upSent'[s][i])
       /\ phase'[s] # "ready" => upSent'[s] = <<>>]_vars

\* a session accepted on /stream-service configured the verse voice with the
\* service text and has gone on to relay audio
C14_Witness ==
  \E s \in Sessions :
    /\ path[s] = "/stream-service"
    /\ phase[s] = "ready"
    /\ Len(upSent[s]) >= 2
    /\ upSent[s][1].voice = "verse"
    /\ upSent[s][1].instructions = "service"
    /\ IsAppend(upSent[s][2])

\* ------------------------------------------------------------ claims of the upstream protocol
\* C20: the configuration message is the first message of every upstream
\* leg: an append or commit is never at the head of what a session sent;
\* a session whose upstream leg has not opened (no connection, connecting, or
\* failed to connect) has sent nothing; a request the gate rejected has no
\* upstream connection at all.
C20_ConfigFirst ==
  \A s \in Sessions :
    /\ upSent[s] # <<>> =>
         /\ IsConfig(upSent[s][1])
         /\ phase[s] = "ready"
         /\ upstream[s] \in {OPEN, CLOSING, CLOSED}
    /\ \A i \in 1..Len(upSent[s]) :
         (IsAppend(upSent[s][i]) \/ IsCommit(upSent[s][i])) => i > 1
    /\ upstream[s] \in {NoSocket, CONNECTING} => upSent[s] = <<>>
    /\ phase[s] = "failed" => upSent[s] = <<>>
    /\ outcome[s] \in {"401", "404"} =>
         upstream[s] = NoSocket /\ upSent[s] = <<>>

\* a session sent the configuration, then an append, then the commit
C20_Witness ==
  \E s \in Sessions :
    /\ Len(upSent[s]) = 3
    /\ IsConfig(upSent[s][1])
    /\ IsAppend(upSent[s][2])
    /\ IsCommit(upSent[s][3])

\* ------------------------------------------------------------ claims of the teardown
\* close has been requested on both legs of the session
Teardown(s) ==
  phase[s] = "ready" /\ NotOpen(twilioWS[s]) /\ NotOpen(upstream[s])

\* a message is delivered to session s on either leg
MessageArrives(s) ==
  lastEv'.s = s /\ lastEv'.ev \in {"twilio.message", "upstream.message"}

\* C15: once close has been requested on both legs, a message that still
\* arrives is discarded: nothing is sent upstream, no send is made or
\* attempted downstream, and the stream identifier keeps its value.
C15_NoOutputAfterTeardown ==
  [][\A s \in Sessions :
       (Teardown(s) /\ MessageArrives(s))
         => /\ upSent'[s] = upSent[s]
            /\ downSent'[s] = downSent[s]
            /\ sendNotOpen'[s] = sendNotOpen[s]
            /\ streamSid'[s] = streamSid[s]]_vars

ReadyStates == {CONNECTING, OPEN, CLOSING, CLOSED}

\* a second closeBoth gives what the first gave
closeBothIdempotent ==
  \A tw \in ReadyStates : \A up \in ReadyStates :
    LET once == closeBoth(tw, up)
    IN closeBoth(once.twilioWS, once.upstream) = once

\* the step runs closeBoth in session s: a close or error event of a leg,
\* or a stop message
RunsCloseBoth(s) ==
  \/ lastEv'.s = s /\ lastEv'.ev \in Triggers
  \/ TwilioDelivers(s, StopMsg)

\* C19: closeBoth is idempotent and re-entrant. Once it has run (close is
\* requested on both legs), a further run, whatever triggers it, changes no
\* leg state except that the leg whose close event triggered it is closed,
\* raises no error and sends nothing on either leg. A closed leg stays
\* closed, so each leg emits one close event at most, and the close event
\* of a leg that is still closing is never blocked: the chain of close
\* events ends with both legs closed.
C19_TeardownIdempotent ==
  [][/\ closeBothIdempotent
     /\ \A s \in Sessions :
          /\ (Teardown(s) /\ RunsCloseBoth(s)) =>
               /\ Teardown(s)'
               /\ twilioWS'[s] # twilioWS[s] =>
                    lastEv'.ev = "twilio.close" /\ twilioWS'[s] = CLOSED
               /\ upstream'[s] # upstream[s] =>
                    lastEv'.ev = "upstream.close" /\ upstream'[s] = CLOSED
               /\ upSent'[s] = upSent[s] /\ downSent'[s] = downSent[s]
               /\ sendNotOpen'[s] = sendNotOpen[s]
               /\ ~crashed'
          /\ twilioWS[s] = CLOSED => twilioWS'[s] = CLOSED
          /\ upstream[s] = CLOSED => upstream'[s] = CLOSED
          /\ (Teardown(s) /\ twilioWS[s] = CLOSING) => ENABLED TwilioClose(s)
          /\ (Teardown(s) /\ upstream[s] = CLOSING) => ENABLED UpstreamClose(s)]_vars

\* after a stop ran closeBoth, the close events of both legs ran it again
\* and both legs are closed
C19_Witness ==
  \E s \in Sessions :
    /\ phase[s] = "ready"
    /\ Len(Commits(s)) = 1
    /\ lastEv \in {Ev(s, "upstream.close"), Ev(s, "twilio.close")}
    /\ twilioWS[s] = CLOSED /\ upstream[s] = CLOSED

\* C17: a stop message is never lost: in a session whose handler has run to
\* its end (the upstream leg has opened), a stop message that was delivered
\* on the downstream leg, at whatever moment, has had close requested on
\* both legs.
C17_StopNotLost ==
  \A s \in Sessions :
    (stopIn[s] /\ phase[s] = "ready") =>
      NotOpen(twilioWS[s]) /\ NotOpen(upstream[s])

\* C18: a session does not wait for the upstream open for ever: a session
\* suspended at the await leaves it (the leg opens, or the session fails),
\* whether or not the network ever answers.
C18_ConnectingBounded ==
  \A s \in Sessions :
    (phase[s] = "await" /\ ~crashed) ~> (phase[s] # "await" \/ crashed)

\* ------------------------------------------------------------ claims of concurrent sessions
\* what session t owns: its identifier, persona, handler position, legs and
\* what it sent
Owned(t) ==
  <<streamSid[t], path[t], phase[t], twilioWS[t], upstream[t], rxOff[t],
    upSent[t], downSent[t]>>

\* C13: sessions are isolated. A step of one session (a message, a close or
\* an error on one of its legs, its upstream open) leaves the identifier,
\* persona, leg states and sent messages of every other session as they
\* were, and every event a session sent downstream carries no identifier
\* delivered to another session.
C13_Isolation ==
  [][\A s \in Sessions : \A t \in Sessions \ {s} :
       /\ lastEv'.s = s => Owned(t)' = Owned(t)
       /\ \A i \in 1..Len(downSent'[s]) :
            downSent'[s][i].streamSid \notin (startsIn'[t] \ startsIn'[s])]_vars

\* C13 apart from the death of the process: every step that does not end
\* the process leaves the other session as it was.
C13_IsolationWhileAlive ==
  [][\A s \in Sessions : \A t \in Sessions \ {s} :
       /\ (lastEv'.s = s /\ ~crashed') => Owned(t)' = Owned(t)
       /\ \A i \in 1..Len(downSent'[s]) :
            downSent'[s][i].streamSid \notin (startsIn'[t] \ startsIn'[s])]_vars

\* ------------------------------------------------------------ claims of the shutdown
\* C16: once a termination signal has been handled, no active session has
\* an open leg: the handler closed the open connections, so the exit does
\* not wait for the peers.
C16_ShutdownClosesConnections ==
  shutdown # "no" =>
    \A s \in Sessions :
      phase[s] = "ready" => twilioWS[s] # OPEN /\ upstream[s] # OPEN
====
